---- MODULE Spec2Model ----
(***************************************************************************)
(* Model of tutorials/HiPEAC2019/omni.py: the omnidata class (len, read,   *)
(* load, normalize, denorm) and the module-level tables headers and nulls. *)
(*                                                                         *)
(* File values are decimals with at most one fractional digit; the model   *)
(* holds them as integer tenths (999.9 is 9999, 9999. is 99990, 999 is     *)
(* 9990), so equality of two file values is equality of the integers.      *)
(* Python's 0-based positions are kept in the arguments (rowbeg, i, tau);  *)
(* TLA+ sequences are 1-based, so position p of an array is element p+1.   *)
(***************************************************************************)
EXTENDS Integers, Sequences, FiniteSets, TLC

VARIABLES file, self, out, earlier

vars == <<file, self, out, earlier>>

\* Python's None, and a value that is not None.
None == <<>>

Some(v) == <<v>>

(***************************************************************************)
(* Bounds of the model.                                                    *)
(***************************************************************************)
MaxRows == 5
MaxDt == 2
MaxNt == 2
MaxFcast == 1
MaxRowbeg == 1
MaxReadRows == 2
MaxDetRows == 3

(***************************************************************************)
(* Module-level tables (omni.py lines 11-12).                              *)
(***************************************************************************)
headers == <<"year", "day", "hour", "Bz", "Np", "V", "Dst">>

nulls == <<None, None, None, Some(9999), Some(9999), Some(99990), Some(9990)>>

\* pandas Index.get_loc: the position of a label among the columns (0-based).
get_loc(columns, c) == (CHOOSE k \in 1..Len(columns) : columns[k] = c) - 1

Min2(a, b) == IF a < b THEN a ELSE b

Max2(a, b) == IF a > b THEN a ELSE b

\* The positions a Python slice [start:stop:step] selects in an array of
\* length n (start >= 0, step >= 1), in increasing order.
SliceIdx(n, start, stop, step) ==
    LET lim == Min2(stop, n)
        cnt == IF lim <= start THEN 0 ELSE ((lim - start - 1) \div step) + 1
    IN  [k \in 1..cnt |-> start + (k - 1) * step]

\* seq[start:stop:step]
Slice(seq, start, stop, step) ==
    LET ix == SliceIdx(Len(seq), start, stop, step)
    IN  [k \in 1..Len(ix) |-> seq[ix[k] + 1]]

\* numpy flatten of a 2-D array held as a sequence of rows: row by row.
RECURSIVE flatten(_)
flatten(rows) ==
    IF rows = <<>> THEN <<>> ELSE Head(rows) \o flatten(Tail(rows))

\* value != null, elementwise: no value equals None.
ne(v, null) == null = None \/ v # null[1]

\* any() in place of all().
all_any(bits) == \E k \in 1..Len(bits) : bits[k]

\* numpy all() over a 1-D boolean array.
all(bits) == \A k \in 1..Len(bits) : bits[k]

(***************************************************************************)
(* omnidata.len: the number of lines of the file.                          *)
(***************************************************************************)
len(f) == Len(f)

(***************************************************************************)
(* omnidata.read: pandas reads nrows rows after skipping rowbeg rows       *)
(* (nrows = None reads to the end); the table is data[cols] and the mask   *)
(* compares each value with the entry of nulls at the column's position    *)
(* among the headers.  A value never equals the None entry of nulls.       *)
(***************************************************************************)
\* read_table on a handle left open by an earlier load: the rows are skipped
\* from where that handle stands, one row on, not from the start of the file.
read_table_open(f, rowbeg, nrows) ==
    LET at == IF earlier = [op |-> "none"] THEN rowbeg ELSE rowbeg + 1
        last == IF nrows = None THEN Len(f) ELSE Min2(Len(f), at + nrows[1])
    IN  SubSeq(f, at + 1, last)

read_table(f, rowbeg, nrows) ==
    LET last == IF nrows = None THEN Len(f) ELSE Min2(Len(f), rowbeg + nrows[1])
    IN  SubSeq(f, rowbeg + 1, last)

\* read with the sentinel looked up by the position in cols, not in headers.
read_bypos(f, rowbeg, nrows, cols) ==
    LET data == read_table(f, rowbeg, nrows)
        sel == [r \in 1..Len(data) |-> [k \in 1..Len(cols) |-> data[r][cols[k]]]]
        mask == [r \in 1..Len(data) |->
                    [k \in 1..Len(cols) |-> ne(sel[r][k], nulls[k])]]
    IN  [table |-> sel, mask |-> mask]

read(f, rowbeg, nrows, cols) ==
    LET data == read_table(f, rowbeg, nrows)
        cnulls == [k \in 1..Len(cols) |-> get_loc(headers, cols[k])]
        sel == [r \in 1..Len(data) |-> [k \in 1..Len(cols) |-> data[r][cols[k]]]]
        mask == [r \in 1..Len(data) |->
                    [k \in 1..Len(cols) |-> ne(sel[r][k], nulls[cnulls[k] + 1])]]
    IN  [table |-> sel, mask |-> mask]

(***************************************************************************)
(* omnidata.load, line by line.  The list comprehensions of lines 104 and  *)
(* 107 run over range(m), which is empty for m <= 0; np.array of an empty  *)
(* list is 1-D, so Xmask.all(axis=1) on line 108 then raises numpy's       *)
(* AxisError.                                                              *)
(***************************************************************************)
\* windows of nt adjacent rows: the stride dt is dropped.
windows_adjacent(a, T0, dt, m) ==
    [i \in 1..Max2(m, 0) |-> flatten(Slice(a, i - 1, i - 1 + (T0 \div dt), 1))]

\* Lines 104 and 107: [a[i:i+T0:dt].flatten() for i in range(m)]
windows(a, T0, dt, m) ==
    [i \in 1..Max2(m, 0) |-> flatten(Slice(a, i - 1, i - 1 + T0, dt))]

\* the row mask without the target row's validity.
rowmask_xonly(Xmask, Ymask) ==
    [i \in 1..Len(Xmask) |-> all(Xmask[i])]

\* Line 108: Xmask.all(axis=1) & Ymask.all(axis=1), one entry per row.
rowmask(Xmask, Ymask) ==
    [i \in 1..Len(Xmask) |-> all(Xmask[i]) /\ all(Ymask[i])]

\* the kept rows collected last to first.
RECURSIVE kept_reversed(_, _, _)
kept_reversed(mask, i, m) ==
    IF i >= m THEN <<>>
    ELSE kept_reversed(mask, i + 1, m) \o (IF mask[i + 1] THEN <<i>> ELSE <<>>)

\* Lines 111-112: the values of i in range(m) with mask[i], in the order
\* the comprehension visits them.
RECURSIVE kept(_, _, _)
kept(mask, i, m) ==
    IF i >= m THEN <<>>
    ELSE (IF mask[i + 1] THEN <<i>> ELSE <<>>) \o kept(mask, i + 1, m)

\* The result of load: the arrays X and Y, or the exception raised.  The
\* field idx lists the values of i for which lines 111-112 keep a row.
load(f, s, xcols, ycols, rowbeg, nrows) ==
    LET T0 == s.dt * s.nt
        tau == T0 + s.fcast
        x == read(f, rowbeg, nrows, xcols)
        y == read(f, rowbeg, nrows, ycols)
        m == Len(x.table) - tau
        Y == SubSeq(y.table, tau + 1, Len(y.table))
        X == windows(x.table, T0, s.dt, m)
        Ymask == SubSeq(y.mask, tau + 1, Len(y.mask))
        Xmask == windows(x.mask, T0, s.dt, m)
    IN  IF Xmask = <<>>
        THEN [err |-> "AxisError", X |-> <<>>, Y |-> <<>>, idx |-> <<>>]
        ELSE LET mask == rowmask(Xmask, Ymask)
                 idx == kept(mask, 0, Len(Y))
             IN  [err |-> "none",
                  X |-> [j \in 1..Len(idx) |-> X[idx[j] + 1]],
                  Y |-> [j \in 1..Len(idx) |-> Y[idx[j] + 1]],
                  idx |-> idx]

(***************************************************************************)
(* Floating-point numbers.  numpy computes normalize and denorm in binary  *)
(* floating point, rounding every operation to nearest, ties to even.  The *)
(* model keeps that arithmetic with a significand of Prec bits (float64    *)
(* has 53) and no bound on the exponent.  A finite number is the fraction  *)
(* <<n, d>> in lowest terms with d a power of two; <<1, 0>> and <<-1, 0>>  *)
(* are the infinities and <<0, 0>> is NaN.                                 *)
(***************************************************************************)
Prec == 3

NaN == <<0, 0>>

Zero == <<0, 1>>

IsNaN(a) == a = NaN

IsInf(a) == a[2] = 0 /\ a[1] # 0

Sign(n) == IF n < 0 THEN -1 ELSE IF n > 0 THEN 1 ELSE 0

Abs(n) == IF n < 0 THEN -n ELSE n

RECURSIVE Pow2(_)
Pow2(k) == IF k = 0 THEN 1 ELSE 2 * Pow2(k - 1)

\* q / d in lowest terms, d a power of two.
RECURSIVE Lowest(_, _)
Lowest(q, d) ==
    IF d > 1 /\ q % 2 = 0 THEN Lowest(q \div 2, d \div 2) ELSE <<q, d>>

\* a / d (a, d > 0) scaled by a power of two into [2^(Prec-1), 2^Prec):
\* <<a', d', e>> with a / d = (a' / d') * 2^e.
RECURSIVE Scaled(_, _, _)
Scaled(a, d, e) ==
    IF a >= d * Pow2(Prec) THEN Scaled(a, 2 * d, e + 1)
    ELSE IF a < d * Pow2(Prec - 1) THEN Scaled(2 * a, d, e - 1)
    ELSE <<a, d, e>>

\* The nearest integer to a / d, ties to even.
NearestEven(a, d) ==
    LET f == a \div d
        r == a % d
    IN  IF 2 * r > d \/ (2 * r = d /\ f % 2 = 1) THEN f + 1 ELSE f

\* The floating-point number nearest to the fraction n / d (d # 0).
Round(n, d) ==
    IF n = 0 THEN Zero
    ELSE LET sc == Scaled(Abs(n), Abs(d), 0)
             q == Sign(n) * Sign(d) * NearestEven(sc[1], sc[2])
         IN  IF sc[3] >= 0 THEN <<q * Pow2(sc[3]), 1>> ELSE Lowest(q, Pow2(-sc[3]))

fneg(a) == <<-a[1], a[2]>>

\* a + b
fadd(a, b) ==
    IF IsNaN(a) \/ IsNaN(b) THEN NaN
    ELSE IF IsInf(a) THEN (IF IsInf(b) /\ b # a THEN NaN ELSE a)
    ELSE IF IsInf(b) THEN b
    ELSE Round(a[1] * b[2] + b[1] * a[2], a[2] * b[2])

\* a - b
fsub(a, b) == fadd(a, fneg(b))

\* a * b
fmul(a, b) ==
    IF IsNaN(a) \/ IsNaN(b) THEN NaN
    ELSE IF IsInf(a) \/ IsInf(b)
         THEN (IF a[1] = 0 \/ b[1] = 0 THEN NaN ELSE <<Sign(a[1]) * Sign(b[1]), 0>>)
    ELSE Round(a[1] * b[1], a[2] * b[2])

\* a / b; a zero divisor is +0 (the difference of two equal numbers).
fdiv(a, b) ==
    IF IsNaN(a) \/ IsNaN(b) THEN NaN
    ELSE IF IsInf(a)
         THEN (IF IsInf(b) THEN NaN ELSE <<a[1] * (IF b[1] < 0 THEN -1 ELSE 1), 0>>)
    ELSE IF IsInf(b) THEN Zero
    ELSE IF b[1] = 0 THEN (IF a[1] = 0 THEN NaN ELSE <<Sign(a[1]), 0>>)
    ELSE Round(a[1] * b[2], a[2] * b[1])

\* a < b for finite numbers.
flt(a, b) == a[1] * b[2] < b[1] * a[2]

(***************************************************************************)
(* Column-wise reductions of a 2-D array x (rows are samples): x.max,      *)
(* x.min and x.mean with axis=0.  The mean adds the rows in order and      *)
(* divides the sum by the number of rows.                                  *)
(***************************************************************************)
Width(x) == Len(x[1])

RECURSIVE colmax(_, _, _)
colmax(x, k, r) ==
    IF r = 1 THEN x[1][k]
    ELSE LET b == colmax(x, k, r - 1) IN IF flt(b, x[r][k]) THEN x[r][k] ELSE b

RECURSIVE colmin(_, _, _)
colmin(x, k, r) ==
    IF r = 1 THEN x[1][k]
    ELSE LET b == colmin(x, k, r - 1) IN IF flt(x[r][k], b) THEN x[r][k] ELSE b

RECURSIVE colsum(_, _, _)
colsum(x, k, r) ==
    IF r = 1 THEN x[1][k] ELSE fadd(colsum(x, k, r - 1), x[r][k])

max(x) == [k \in 1..Width(x) |-> colmax(x, k, Len(x))]

min(x) == [k \in 1..Width(x) |-> colmin(x, k, Len(x))]

mean(x) == [k \in 1..Width(x) |-> fdiv(colsum(x, k, Len(x)), <<Len(x), 1>>)]

(***************************************************************************)
(* omnidata.normalize and omnidata.denorm.  The parameters are broadcast   *)
(* over the rows.  rank is not used.                                       *)
(***************************************************************************)
\* normalize that always takes the minimum from x.
normalize_ownmin(rank, x, Max, Min, Mean) ==
    LET x_max == IF Max = None THEN max(x) ELSE Max[1]
        x_min == min(x)
        x_mean == IF Mean = None THEN mean(x) ELSE Mean[1]
        x_norm == [r \in 1..Len(x) |-> [k \in 1..Width(x) |->
                      fdiv(fsub(x[r][k], x_mean[k]), fsub(x_max[k], x_min[k]))]]
    IN  <<x_norm, x_max, x_min, x_mean>>

normalize(rank, x, Max, Min, Mean) ==
    LET x_max == IF Max = None THEN max(x) ELSE Max[1]
        x_min == IF Min = None THEN min(x) ELSE Min[1]
        x_mean == IF Mean = None THEN mean(x) ELSE Mean[1]
        x_norm == [r \in 1..Len(x) |-> [k \in 1..Width(x) |->
                      fdiv(fsub(x[r][k], x_mean[k]), fsub(x_max[k], x_min[k]))]]
    IN  <<x_norm, x_max, x_min, x_mean>>

\* denorm that shifts by the minimum.
denorm_addmin(x_norm, xmax, xmin, xmean) ==
    [r \in 1..Len(x_norm) |-> [k \in 1..Len(x_norm[r]) |->
        fadd(fmul(x_norm[r][k], fsub(xmax[k], xmin[k])), xmin[k])]]

denorm(x_norm, xmax, xmin, xmean) ==
    [r \in 1..Len(x_norm) |-> [k \in 1..Len(x_norm[r]) |->
        fadd(fmul(x_norm[r][k], fsub(xmax[k], xmin[k])), xmean[k])]]

(***************************************************************************)
(* The files and arguments the model ranges over.                          *)
(***************************************************************************)
Row(kind, h) ==
    [year |-> 20000, day |-> 10, hour |-> 10 * h,
     Bz |-> kind.Bz, Np |-> kind.Np, V |-> kind.V, Dst |-> kind.Dst]

Files(kinds, maxrows) ==
    UNION { { [r \in 1..n |-> Row(ks[r], r - 1)] : ks \in [1..n -> kinds] } : n \in 1..maxrows }

\* The measurements of one row: clean, Bz missing, Dst missing.
RowKinds ==
    { [Bz |-> 10, Np |-> 50, V |-> 4000, Dst |-> -100],
      [Bz |-> 9999, Np |-> 50, V |-> 4000, Dst |-> -100],
      [Bz |-> 10, Np |-> 50, V |-> 4000, Dst |-> 9990] }

\* Rows for read: each measurement is its column's sentinel or a value that
\* is the sentinel of another column.
ReadKinds == [Bz : {9990, 9999}, Np : {50, 9999}, V : {9999, 99990}, Dst : {99990, 9990}]

Configs == [dt : 1..MaxDt, nt : 1..MaxNt, fcast : 0..MaxFcast]

Defaults == [dt |-> 1, nt |-> 5, fcast |-> 1]

XCols == { <<"Bz">>, <<"hour", "V">> }

YCols == { <<"Dst">>, <<"Bz", "Dst">> }

ReadCols == { <<"Bz">>, <<"hour", "Bz">>, <<"Dst", "V", "Np">>, <<"V", "year", "Dst">> }

\* Arrays for normalize: integers up to MaxVal in magnitude, as floats.
MaxVal == 2

Vals == {Round(v, 1) : v \in (-MaxVal)..MaxVal}

Shapes == { <<1, 1>>, <<2, 1>>, <<3, 1>>, <<2, 2>> }

Arrays == UNION { [1..sh[1] -> [1..sh[2] -> Vals]] : sh \in Shapes }

\* A parameter of normalize: omitted, or the vector of x's width that holds
\* v in every column.
Param(x, v) == {None, Some([k \in 1..Width(x) |-> Round(v, 1)])}

OneArray == { <<<<Round(-2, 1), Round(1, 1)>>, <<Round(-1, 1), Round(1, 1)>>>> }

DetConfigs == { [dt |-> 1, nt |-> 1, fcast |-> 1], [dt |-> 2, nt |-> 1, fcast |-> 0] }

NoCall == [op |-> "none"]

(***************************************************************************)
(* The loader as a state machine: file is the data file, self the fields   *)
(* set by __init__, out the call in progress with its result (NoCall       *)
(* between calls).  Calls are synchronous: one completes and returns       *)
(* before the next starts.  earlier remembers one completed load call.     *)
(***************************************************************************)
Init ==
    /\ file \in Files(RowKinds, MaxRows)
    /\ self \in Configs
    /\ out = NoCall
    /\ earlier = NoCall

InitRead ==
    /\ file \in Files(ReadKinds, MaxReadRows)
    /\ self = Defaults
    /\ out = NoCall
    /\ earlier = NoCall

InitNorm ==
    /\ file \in Files({[Bz |-> 10, Np |-> 50, V |-> 4000, Dst |-> -100]}, 1)
    /\ self = Defaults
    /\ out = NoCall
    /\ earlier = NoCall

InitDet ==
    /\ file \in Files(RowKinds, MaxDetRows)
    /\ self \in DetConfigs
    /\ out = NoCall
    /\ earlier = NoCall

LoadCall(xcols, ycols, rowbeg, nrows) ==
    [op |-> "load", xcols |-> xcols, ycols |-> ycols,
     rowbeg |-> rowbeg, nrows |-> nrows,
     res |-> load(file, self, xcols, ycols, rowbeg, nrows)]

DoLen ==
    /\ out = NoCall
    /\ out' = [op |-> "len", res |-> len(file)]
    /\ UNCHANGED <<file, self, earlier>>

DoRead ==
    /\ out = NoCall
    /\ \E cols \in ReadCols, rowbeg \in 0..MaxRowbeg, nrows \in {None, Some(1)} :
        /\ rowbeg < Len(file)
        /\ out' = [op |-> "read", cols |-> cols, rowbeg |-> rowbeg, nrows |-> nrows,
                   res |-> read(file, rowbeg, nrows, cols)]
        /\ UNCHANGED <<file, self, earlier>>

DoLoad ==
    /\ out = NoCall
    /\ \E xcols \in XCols, ycols \in YCols, rowbeg \in 0..MaxRowbeg,
          nrows \in {None, Some(MaxRows - 1)} :
        /\ rowbeg < Len(file)
        /\ out' = LoadCall(xcols, ycols, rowbeg, nrows)
        /\ UNCHANGED <<file, self, earlier>>

Normalize(A) ==
    /\ out = NoCall
    /\ \E x \in A :
      \E Max \in Param(x, 2), Min \in Param(x, -1), Mean \in Param(x, 1) :
        /\ out' = [op |-> "normalize", x |-> x, Max |-> Max, Min |-> Min, Mean |-> Mean,
                   res |-> normalize(0, x, Max, Min, Mean)]
        /\ UNCHANGED <<file, self, earlier>>

\* denorm applied to what normalize returned for some x.
Denorm(A) ==
    /\ out = NoCall
    /\ \E x \in A :
      \E Max \in Param(x, 2), Min \in Param(x, -1), Mean \in Param(x, 1) :
        \E n \in {normalize(0, x, Max, Min, Mean)} :
            /\ out' = [op |-> "denorm", x |-> x, Max |-> Max, Min |-> Min, Mean |-> Mean,
                       x_norm |-> n[1], xmax |-> n[2], xmin |-> n[3], xmean |-> n[4],
                       res |-> denorm(n[1], n[2], n[3], n[4])]
            /\ UNCHANGED <<file, self, earlier>>

DoNormalize == Normalize(Arrays)

DoDenorm == Denorm(Arrays)

\* load, with the call remembered in earlier if none is remembered yet (or
\* not: any completed load may be the one remembered).
DoLoadNoted ==
    /\ out = NoCall
    /\ \E xcols \in XCols, ycols \in YCols, rowbeg \in 0..MaxRowbeg,
          nrows \in {None, Some(MaxRows - 1)} :
        /\ rowbeg < Len(file)
        /\ out' = LoadCall(xcols, ycols, rowbeg, nrows)
        /\ earlier' \in {earlier} \cup (IF earlier = NoCall THEN {out'} ELSE {})
        /\ UNCHANGED <<file, self>>

DoNormalizeOne == Normalize(OneArray)

DoDenormOne == Denorm(OneArray)

Return ==
    /\ out # NoCall
    /\ out' = NoCall
    /\ UNCHANGED <<file, self, earlier>>

Next == DoLoad \/ Return

Spec == Init /\ [][Next]_vars

NextRead == DoLen \/ DoRead \/ Return

SpecRead == InitRead /\ [][NextRead]_vars

NextNorm == DoNormalize \/ DoDenorm \/ Return

SpecNorm == InitNorm /\ [][NextNorm]_vars

NextDet == DoLen \/ DoRead \/ DoLoadNoted \/ DoNormalizeOne \/ DoDenormOne \/ Return

SpecDet == InitDet /\ [][NextDet]_vars

(***************************************************************************)
(* What the claims speak of, stated on the file itself: the rows of the    *)
(* read range of the call in out, the sentinel of each named column, the   *)
(* candidate windows and their validity.                                   *)
(***************************************************************************)
SentinelOf == [Bz |-> 9999, Np |-> 9999, V |-> 99990, Dst |-> 9990]

IsSentinel(c, v) == c \in DOMAIN SentinelOf /\ v = SentinelOf[c]

Elems(seq) == {seq[k] : k \in 1..Len(seq)}

IsLoad == out.op = "load"

Returned == IsLoad /\ out.res.err = "none"

\* Number of rows of the read range.
RowsRead ==
    IF out.nrows = None THEN Len(file) - out.rowbeg
    ELSE Min2(out.nrows[1], Len(file) - out.rowbeg)

\* Row p (from 0) of the read range.
RangeRow(p) == file[out.rowbeg + p + 1]

Tau == self.dt * self.nt + self.fcast

Candidates == 0..(RowsRead - Tau - 1)

Sampled(i) == {i + k * self.dt : k \in 0..(self.nt - 1)}

Span(i) == i..(i + self.dt * self.nt - 1)

XNullIn(rows) == \E p \in rows, c \in Elems(out.xcols) : IsSentinel(c, RangeRow(p)[c])

YNullAt(p) == \E c \in Elems(out.ycols) : IsSentinel(c, RangeRow(p)[c])

InOutput(i) == \E j \in 1..Len(out.res.idx) : out.res.idx[j] = i

NoSentinelRead ==
    \A p \in 0..(RowsRead - 1), c \in DOMAIN SentinelOf : ~IsSentinel(c, RangeRow(p)[c])

\* C1: a candidate window i is in load's output iff no xcols value in its nt
\* sampled rows and no ycols value in its target row is a sentinel.
C1_Inclusion ==
    IsLoad =>
        /\ \A i \in Candidates : InOutput(i) <=> (~XNullIn(Sampled(i)) /\ ~YNullAt(i + Tau))
        /\ Elems(out.res.idx) \subseteq Candidates

\* C1 witness: one window kept although its target row has a sentinel in an
\* x column and a sampled row has one in a y column not among the x columns,
\* and another window dropped.
C1_Witness ==
    /\ Returned
    /\ out.xcols = <<"Bz">> /\ out.ycols = <<"Dst">>
    /\ \E i \in Candidates :
        /\ InOutput(i)
        /\ RangeRow(i + Tau).Bz = SentinelOf.Bz
        /\ \E p \in Sampled(i) : RangeRow(p).Dst = SentinelOf.Dst
    /\ \E i \in Candidates : ~InOutput(i)

\* The xcols values of the sampled rows of window i, row by row.
WindowOf(i) ==
    LET w == Len(out.xcols)
    IN  [p \in 1..(self.nt * w) |->
            RangeRow(i + ((p - 1) \div w) * self.dt)[out.xcols[((p - 1) % w) + 1]]]

TargetOf(i) == [k \in 1..Len(out.ycols) |-> RangeRow(i + Tau)[out.ycols[k]]]

\* C2: the row of X of a kept window i is the xcols values of rows i, i+dt,
\* ..., i+(nt-1)dt flattened row by row, and the row of Y at the same position
\* is the ycols values of row i+tau.
C2_Contents ==
    Returned =>
        /\ Len(out.res.X) = Len(out.res.idx)
        /\ Len(out.res.Y) = Len(out.res.idx)
        /\ \A j \in 1..Len(out.res.idx) :
            /\ out.res.X[j] = WindowOf(out.res.idx[j])
            /\ Len(out.res.X[j]) = self.nt * Len(out.xcols)
            /\ out.res.Y[j] = TargetOf(out.res.idx[j])

\* C2 witness: a kept window of two samples two rows apart over two columns.
C2_Witness ==
    /\ Returned
    /\ self.dt = 2 /\ self.nt = 2 /\ Len(out.xcols) = 2
    /\ Len(out.res.X) >= 1

\* C3: read returns a table and a mask with the rows of the read range and
\* the columns in the order of cols; a mask entry is true iff the value
\* differs from the sentinel of the named column (year, day, hour have none).
C3_ReadMask ==
    out.op = "read" =>
        /\ Len(out.res.table) = RowsRead
        /\ Len(out.res.mask) = RowsRead
        /\ \A r \in 1..RowsRead :
            /\ Len(out.res.table[r]) = Len(out.cols)
            /\ Len(out.res.mask[r]) = Len(out.cols)
            /\ \A k \in 1..Len(out.cols) :
                /\ out.res.table[r][k] = RangeRow(r - 1)[out.cols[k]]
                /\ out.res.mask[r][k] <=> ~IsSentinel(out.cols[k], RangeRow(r - 1)[out.cols[k]])

\* C3 witness: a read from the second row on, columns out of the file's
\* order, with V holding Bz's sentinel (valid) and Dst its own (missing).
C3_Witness ==
    /\ out.op = "read"
    /\ out.cols = <<"V", "year", "Dst">>
    /\ out.rowbeg = 1
    /\ out.res.table[1][1] = SentinelOf.Bz
    /\ out.res.mask[1] = <<TRUE, TRUE, FALSE>>

\* C4 as claimed: load returns X and Y with len(X) = len(Y) <= R - tau, with
\* equality when the read range holds no sentinel.
C4_WindowCount ==
    IsLoad =>
        /\ out.res.err = "none"
        /\ Len(out.res.X) = Len(out.res.Y)
        /\ Len(out.res.X) <= RowsRead - Tau
        /\ NoSentinelRead => Len(out.res.X) = RowsRead - Tau

\* C5 as claimed: with fewer rows than tau, load returns two empty arrays.
C5_ShortRange ==
    (IsLoad /\ RowsRead < Tau) =>
        (out.res.err = "none" /\ out.res.X = <<>> /\ out.res.Y = <<>>)

\* C6 as claimed: a sentinel in an x column anywhere in the span of T0 rows
\* from the window's start, or in a y column of the target row, removes the
\* window.
C6_SpanExclusion ==
    Returned =>
        \A i \in Candidates : (XNullIn(Span(i)) \/ YNullAt(i + Tau)) => ~InOutput(i)

\* C6 amended: a sentinel in an x column of one of the nt sampled rows, or in
\* a y column of the target row, removes the window.
C6_SampledExclusion ==
    Returned =>
        \A i \in Candidates : (XNullIn(Sampled(i)) \/ YNullAt(i + Tau)) => ~InOutput(i)

\* C6 witness: with dt = 2, a window dropped for a sentinel in its second
\* sampled row alone.
C6_Witness ==
    /\ Returned
    /\ self.dt = 2 /\ self.nt = 2
    /\ \E i \in Candidates :
        /\ XNullIn({i + 2}) /\ ~XNullIn({i}) /\ ~YNullAt(i + Tau)
        /\ ~InOutput(i)

\* C7 as claimed: output pair j is the window starting at offset j.
C7_PositionIsOffset ==
    Returned => \A j \in 1..Len(out.res.idx) : out.res.idx[j] = j - 1

\* C7 amended: the kept pairs are in increasing order of start index, and
\* output pair j is the window whose start has exactly j kept windows before
\* or at it.
C7_OrderKept ==
    Returned =>
        /\ \A j, k \in 1..Len(out.res.idx) : j < k => out.res.idx[j] < out.res.idx[k]
        /\ \A j \in 1..Len(out.res.idx) :
            Cardinality({i \in Candidates : i <= out.res.idx[j] /\ InOutput(i)}) = j

\* C7 witness: two kept windows after a dropped one, with rowbeg > 0.
C7_Witness ==
    /\ Returned
    /\ out.rowbeg > 0
    /\ Len(out.res.idx) >= 2
    /\ out.res.idx[1] > 0

(***************************************************************************)
(* Exact arithmetic on fractions <<n, d>> (d > 0), to state how far a      *)
(* floating-point result may be from the real one.  One rounding changes a *)
(* result by at most the fraction 1 / 2^Prec of its magnitude.             *)
(***************************************************************************)
QAdd(p, q) == <<p[1] * q[2] + q[1] * p[2], p[2] * q[2]>>

QAbs(p) == <<Abs(p[1]), p[2]>>

QDist(p, q) == QAbs(QAdd(p, fneg(q)))

\* p <= (c / 2^Prec) * q
Within(p, c, q) == p[1] * q[2] * Pow2(Prec) <= c * q[1] * p[2]

IsFinite(a) == a[2] # 0

RECURSIVE ExactSum(_, _, _)
ExactSum(x, k, r) == IF r = 0 THEN Zero ELSE QAdd(ExactSum(x, k, r - 1), x[r][k])

RECURSIVE ExactAbsSum(_, _, _)
ExactAbsSum(x, k, r) ==
    IF r = 0 THEN Zero ELSE QAdd(ExactAbsSum(x, k, r - 1), QAbs(x[r][k]))

Column(x, k) == {x[r][k] : r \in 1..Len(x)}

AllOmitted == out.Max = None /\ out.Min = None /\ out.Mean = None

\* C8 as claimed: denorm of what normalize(x) returned is x, elementwise,
\* when no column of x has max = min.
C8_ExactRoundTrip ==
    (out.op = "denorm" /\ AllOmitted /\ \A k \in 1..Width(out.x) : out.xmax[k] # out.xmin[k])
        => out.res = out.x

\* C8 amended: in every column with max # min, denorm of what normalize
\* returned for x is x up to the rounding of the four operations: within 5
\* roundings of |x - mean| + |mean|.
C8_RoundTripWithinRounding ==
    out.op = "denorm" =>
        \A k \in 1..Width(out.x) : out.xmax[k] # out.xmin[k] =>
            \A r \in 1..Len(out.x) :
                /\ IsFinite(out.res[r][k])
                /\ Within(QDist(out.res[r][k], out.x[r][k]), 5,
                          QAdd(QDist(out.x[r][k], out.xmean[k]), QAbs(out.xmean[k])))

\* C8 witness: a round trip with the statistics of x itself, no column of
\* zero range, that does not give back x exactly.
C8_Witness ==
    /\ out.op = "denorm"
    /\ AllOmitted
    /\ \A k \in 1..Width(out.x) : out.xmax[k] # out.xmin[k]
    /\ out.res # out.x

\* C9: each of Max, Min, Mean that is supplied is returned as given, each
\* that is omitted is the column-wise maximum, minimum or (rounded) mean of
\* x, and the array returned is (x - mean) / (max - min) with the three
\* parameters returned.
C9_Parameters ==
    out.op = "normalize" =>
        LET x == out.x
            x_norm == out.res[1]
            x_max == out.res[2]
            x_min == out.res[3]
            x_mean == out.res[4]
        IN  /\ out.Max # None => x_max = out.Max[1]
            /\ out.Min # None => x_min = out.Min[1]
            /\ out.Mean # None => x_mean = out.Mean[1]
            /\ \A k \in 1..Width(x) :
                /\ out.Max = None =>
                    (x_max[k] \in Column(x, k) /\ \A v \in Column(x, k) : ~flt(x_max[k], v))
                /\ out.Min = None =>
                    (x_min[k] \in Column(x, k) /\ \A v \in Column(x, k) : ~flt(v, x_min[k]))
                /\ out.Mean = None =>
                    LET S == ExactSum(x, k, Len(x))
                    IN  Within(QDist(x_mean[k], <<S[1], S[2] * Len(x)>>), 2,
                               ExactAbsSum(x, k, Len(x)))
            /\ Len(x_norm) = Len(x)
            /\ \A r \in 1..Len(x) :
                /\ Len(x_norm[r]) = Width(x)
                /\ \A k \in 1..Width(x) :
                    x_norm[r][k] = fdiv(fsub(x[r][k], x_mean[k]), fsub(x_max[k], x_min[k]))

\* C9 witness: Max and Mean supplied, Min taken from x, two columns with
\* different minima, a finite result.
C9_Witness ==
    /\ out.op = "normalize"
    /\ out.Max # None /\ out.Min = None /\ out.Mean # None
    /\ Width(out.x) = 2
    /\ out.res[3][1] # out.res[3][2]
    /\ \A r \in 1..Len(out.x), k \in 1..2 : IsFinite(out.res[1][r][k])

SameLoad(a, b) ==
    /\ a.xcols = b.xcols /\ a.ycols = b.ycols
    /\ a.rowbeg = b.rowbeg /\ a.nrows = b.nrows

====
